---- MODULE Spec2Model ----
(***************************************************************************)
(* Model of the Telegram medical-portal bot (src/telegram_bot.py) and of   *)
(* the portal client it drives (src/medical_portal_client.py).             *)
(*                                                                         *)
(* Two activities share one process: the asyncio task                      *)
(* message_checker_worker (the poll loop) and the chat handlers, which     *)
(* python-telegram-bot runs one update at a time.  Blocking portal calls   *)
(* are handed to ThreadPoolExecutor(max_workers=2), so one job of the poll *)
(* loop and one job of a handler can run at the same time.                 *)
(***************************************************************************)
EXTENDS Integers, Sequences, FiniteSets, TLC

\* Message identifiers the portal hands out are 1..MaxId.
MaxId == 3
\* A listing holds at most MaxLen entries.
MaxLen == 2

VARIABLES
    last_message_id,          \* TelegramMedicalBot.last_message_id (Optional[int])
    state_file,               \* content of last_message_state.json
    message_checker_running,  \* TelegramMedicalBot.message_checker_running
    pc,                       \* where the poll worker is
    messages,                 \* check_for_new_messages: the listing obtained
    todo,                     \* reversed(new_messages) still to be notified
    new_last_message_id,      \* check_for_new_messages: local of that name
    cycle,                    \* record of the poll cycle in progress
    is_authenticated,         \* MedicalPortalClient.is_authenticated
    session_file,             \* medical_portal_session.json exists
    hpc,                      \* where the chat handler in progress is
    conv,                     \* ConversationHandler state of the chat
    twofa_data,               \* context.user_data['twofa_data'] is stored
    notified,                 \* identifiers send_message has been called for
    loginBy,                  \* callers that have invoked begin_authentication
    cookies,                  \* MedicalPortalClient.session.cookies
    snapshot,                 \* content of medical_portal_session.json
    call                      \* the client operation completed last

vars == <<last_message_id, state_file, message_checker_running, pc, messages,
          todo, new_last_message_id, cycle, is_authenticated, session_file,
          hpc, conv, twofa_data, notified, loginBy, cookies, snapshot, call>>

pollVars == <<last_message_id, state_file, message_checker_running, pc,
              messages, todo, new_last_message_id, cycle, notified>>

chatVars == <<hpc, conv, twofa_data>>

storeVars == <<cookies, snapshot>>

----------------------------------------------------------------------------
(* Python values *)

\* Optional[T]: None is the empty tuple, a value x is <<x>>.
None == <<>>

Some(x) == <<x>>

Val(o) == o[1]

\* Truth value of an Optional[int] in a Python condition: None and 0 are falsy.
TruthyInt(o) == o # None /\ Val(o) # 0

\* Truth value of an Optional[bool]: None and False are falsy.
TruthyBool(o) == o # None /\ Val(o)

Max(a, b) == IF a >= b THEN a ELSE b

Ids == 1..MaxId

RECURSIVE Reverse(_)
Reverse(s) == IF s = <<>> THEN <<>> ELSE Append(Reverse(Tail(s)), Head(s))

Range(s) == {s[i] : i \in DOMAIN s}

----------------------------------------------------------------------------
(* The portal's inbox listing, as list_messages returns it *)

\* One entry of list_messages: 'id' is None when the link carries no id
\* parameter; 'answered' is None when the link has no data-reaction attribute.
Message == [id : {None} \cup {Some(i) : i \in Ids},
            answered : {None, Some(TRUE), Some(FALSE)}]

\* Identifiers are unique within a folder.
UniqueIds(s) ==
    \A i, j \in DOMAIN s : (i # j /\ s[i].id # None) => s[i].id # s[j].id

Listings ==
    {s \in UNION {[1..n -> Message] : n \in 0..MaxLen} : UniqueIds(s)}

\* Outcome of the GET in _is_session_valid.
ProbeOutcomes == {"ok", "redirect303", "network_error"}

\* A variant of _is_session_valid without the except clause of line 137
\* turned into stale: a request that fails counts as valid.
is_session_valid_fail_open(probe) == probe # "redirect303"

\* _is_session_valid: any status other than 303 counts as valid; an exception
\* counts as stale.
is_session_valid(probe) == probe = "ok"

\* A variant of _ensure_authenticated that signs in by itself when the session
\* is not valid.
ensure_authenticated_auto_login(authenticated, probe) ==
    [ok |-> authenticated /\ is_session_valid(probe),
     probed |-> authenticated,
     login |-> ~(authenticated /\ is_session_valid(probe))]

\* A variant of _ensure_authenticated that trusts the flag and makes no probe.
ensure_authenticated_without_probe(authenticated, probe) ==
    [ok |-> authenticated, probed |-> FALSE, login |-> FALSE]

\* _ensure_authenticated: ok is its return value; probed tells whether
\* _is_session_valid was called (the 'and' of line 496 calls it only when the
\* flag is set); login tells whether it called begin_authentication on the
\* way (it never does).
ensure_authenticated(authenticated, probe) ==
    [ok |-> authenticated /\ is_session_valid(probe),
     probed |-> authenticated,
     login |-> FALSE]

\* What the GET of the correspondence page and its parse come to: the request
\* raises, the parse raises, the page has no div of the folder, the folder has
\* no button-list div, or the button list is there with its links.
PageOutcomes ==
    {"request_failed", "parse_failed", "no_folder", "no_button_list", "links"}

\* A variant of list_messages without the except clauses of lines 372-377.
list_messages_unguarded(authenticated, page, entries) ==
    IF ~authenticated
    THEN [requests |-> <<>>, raised |-> FALSE, messages |-> <<>>]
    ELSE IF page \in {"request_failed", "parse_failed"}
    THEN [requests |-> <<"GET">>, raised |-> TRUE, messages |-> <<>>]
    ELSE IF page \in {"no_folder", "no_button_list"}
    THEN [requests |-> <<"GET">>, raised |-> FALSE, messages |-> <<>>]
    ELSE [requests |-> <<"GET">>, raised |-> FALSE, messages |-> entries]

\* list_messages: [] when the client is not authenticated (line 283), when
\* the request or the parse raises (372-377) and when the folder or its
\* button list is missing (299, 305); else one entry per link.  It raises
\* nothing.
list_messages(authenticated, page, entries) ==
    IF ~authenticated
    THEN [requests |-> <<>>, raised |-> FALSE, messages |-> <<>>]
    ELSE IF page \in {"request_failed", "parse_failed"}
    THEN [requests |-> <<"GET">>, raised |-> FALSE, messages |-> <<>>]
    ELSE IF page \in {"no_folder", "no_button_list"}
    THEN [requests |-> <<"GET">>, raised |-> FALSE, messages |-> <<>>]
    ELSE [requests |-> <<"GET">>, raised |-> FALSE, messages |-> entries]

\* lines 343-365: the tokens the text of an entry's span may be made of, and
\* the greatest number of them.
MaxTokens == 5

Tokens == {"Today", "today", "TODAY", "3", "October", "15:56"}

TokenSeqs == UNION {[1..n -> Tokens] : n \in 0..MaxTokens}

\* str.lower on a token
Lower(token) ==
    CASE token \in {"Today", "today", "TODAY"} -> "today"
      [] token = "October" -> "october"
      [] OTHER -> token

\* The date an entry has before its span is read: None, or the value of the
\* date= parameter of the href (line 330).
UrlDates == {None, Some(<<"2025-10-03">>)}

\* A variant of lines 357-365 that tries the format without a year first.
parse_timestamp_year_last(parts, date0) ==
    IF Len(parts) < 2 THEN [date |-> date0, time |-> None]
    ELSE IF Lower(parts[1]) = "today"
    THEN [date |-> Some(<<"Today">>), time |-> Some(parts[2])]
    ELSE IF Len(parts) >= 3
    THEN [date |-> Some(<<parts[1], parts[2]>>), time |-> Some(parts[3])]
    ELSE [date |-> date0, time |-> None]

\* lines 347-365: date and time of an entry from the tokens of its span.  A
\* date is the sequence of the tokens that the code joins with blanks.
parse_timestamp(parts, date0) ==
    IF Len(parts) < 2 THEN [date |-> date0, time |-> None]
    ELSE IF Lower(parts[1]) = "today"
    THEN [date |-> Some(<<"Today">>), time |-> Some(parts[2])]
    ELSE IF Len(parts) >= 4
    THEN [date |-> Some(<<parts[1], parts[2], parts[3]>>),
          time |-> Some(parts[4])]
    ELSE IF Len(parts) >= 3
    THEN [date |-> Some(<<parts[1], parts[2]>>), time |-> Some(parts[3])]
    ELSE [date |-> date0, time |-> None]

\* What a detail page holds.  question: no div[data-speech=question], one
\* without a div.content, one whose content is empty, one with text.
\* answer: no div[data-speech=answer], one without an inner div, one with
\* text.  sender: the answer block has an h2.
DetailBlocks ==
    [question : {"absent", "no_content", "empty", "text"},
     answer : {"absent", "no_div", "text"},
     sender : BOOLEAN]

NoBlocks == [question |-> "absent", answer |-> "absent", sender |-> FALSE]

FetchOutcomes == {"ok", "request_failed", "parse_failed"}

\* lines 400-447: the dict built from the page
message_details(blocks) ==
    LET question == IF blocks.question = "text" THEN "Q" ELSE ""
        answer == IF blocks.answer = "text" THEN "A" ELSE ""
    IN  [question |-> question,
         answer |-> answer,
         content |-> (IF question # "" THEN <<<<"Question", question>>>>
                      ELSE <<>>)
                     \o (IF answer # "" THEN <<<<"Answer", answer>>>>
                         ELSE <<>>),
         sender |-> IF blocks.answer # "absent" /\ blocks.sender
                    THEN Some("Dr") ELSE None]

\* A variant of get_message_details that reads the sender without the test
\* of line 444: with no answer block the find on None raises, which the
\* except clause of line 469 turns into None.
get_message_details_needs_answer(authenticated, fetch, blocks) ==
    IF ~authenticated
    THEN [requests |-> <<>>, raised |-> FALSE, details |-> None]
    ELSE IF fetch # "ok" \/ blocks.answer = "absent"
    THEN [requests |-> <<"GET">>, raised |-> FALSE, details |-> None]
    ELSE [requests |-> <<"GET">>, raised |-> FALSE,
          details |-> Some(message_details(blocks))]

\* get_message_details: None when the client is not authenticated (line 391)
\* and when the request or the parse raises (466-471); else the dict.
get_message_details(authenticated, fetch, blocks) ==
    IF ~authenticated
    THEN [requests |-> <<>>, raised |-> FALSE, details |-> None]
    ELSE IF fetch # "ok"
    THEN [requests |-> <<"GET">>, raised |-> FALSE, details |-> None]
    ELSE [requests |-> <<"GET">>, raised |-> FALSE,
          details |-> Some(message_details(blocks))]

\* get_all_messages, lines 473-498: both folders empty when the client is
\* not authenticated, else list_messages on the inbox and on the archive.
get_all_messages(authenticated, inbox_page, inbox, archive_page, archive) ==
    IF ~authenticated
    THEN [requests |-> <<>>, inbox |-> <<>>, archive |-> <<>>]
    ELSE LET i == list_messages(authenticated, inbox_page, inbox)
             a == list_messages(authenticated, archive_page, archive)
         IN  [requests |-> i.requests \o a.requests,
              inbox |-> i.messages,
              archive |-> a.messages]

\* A variant of get_patient_info without the test of lines 591-593.
get_patient_info_unguarded(authenticated, fetch, found) ==
    [requests |-> <<"GET">>,
     result |-> IF fetch = "ok" /\ found THEN "dict" ELSE "None"]

\* get_patient_info, lines 584-626: None when the client is not
\* authenticated, when the request or the parse raises and when the page
\* shows nothing of the patient; else the dict.
get_patient_info(authenticated, fetch, found) ==
    IF ~authenticated THEN [requests |-> <<>>, result |-> "None"]
    ELSE [requests |-> <<"GET">>,
          result |-> IF fetch = "ok" /\ found THEN "dict" ELSE "None"]

\* telegram_bot.py line 258: the greatest length /ask accepts
QuestionLimit == 600

QuestionLengths == {0, 1, QuestionLimit, QuestionLimit + 1}

\* The attachment_path argument: None, the path of a file, a path with no
\* file behind it.
Attachments == {"none", "exists", "missing"}

\* What the POST of the question comes to: it raises, or the text of the
\* response reports an error, a submission, or neither.
PostOutcomes == {"raised", "error", "submitted", "unclear"}

\* ask_question, lines 512-563.  There is no test of the length of the
\* question; the GET of the consult page comes first; a path with no file
\* behind it is passed over at line 533 and the POST goes out without a
\* file.
ask_question(authenticated, question, attachment, get_ok, post) ==
    IF ~authenticated
    THEN [result |-> "False", requests |-> <<>>, attached |-> FALSE]
    ELSE IF ~get_ok
    THEN [result |-> "False", requests |-> <<"GET">>, attached |-> FALSE]
    ELSE [result |-> IF post \in {"raised", "error"} THEN "False" ELSE "True",
          requests |-> <<"GET", "POST">>,
          attached |-> attachment = "exists"]

----------------------------------------------------------------------------
(* The cursor file *)

NoFile == <<"absent">>

Json(id) == <<"json", id>>

\* _load_last_message_state
load_last_message_state(file) ==
    IF file = NoFile THEN None ELSE file[2]

\* _save_last_message_state: a failing open/write is logged and swallowed.
save_last_message_state(file, message_id, written) ==
    IF written THEN Json(Some(message_id)) ELSE file

----------------------------------------------------------------------------
(* check_for_new_messages *)

\* A variant of line 542 that only asks whether the flag is present.
is_answered_if_present(msg) == msg.answered # None

\* line 542: the record counts only when msg.get('answered') is truthy
is_answered(msg) == TruthyBool(msg.answered)

\* A variant of line 547 that takes every record for new while there is no
\* cursor.
is_new_without_cursor(cursor, msg_id) ==
    cursor = None \/ msg_id > Val(cursor)

\* line 547: self.last_message_id and msg_id > self.last_message_id
is_new(cursor, msg_id) == TruthyInt(cursor) /\ msg_id > Val(cursor)

\* lines 538-548: the scan of the listing.  raised: int(None) threw.
RECURSIVE scan(_, _, _)
scan(msgs, cursor, acc) ==
    IF msgs = <<>> \/ acc.raised THEN acc
    ELSE LET msg == Head(msgs) IN
         IF ~is_answered(msg) THEN scan(Tail(msgs), cursor, acc)
         ELSE IF msg.id = None THEN [acc EXCEPT !.raised = TRUE]
         ELSE LET msg_id == Val(msg.id) IN
              scan(Tail(msgs), cursor,
                   [raised |-> FALSE,
                    new_last_message_id |-> Max(acc.new_last_message_id, msg_id),
                    new_messages |->
                        IF is_new(cursor, msg_id)
                        THEN Append(acc.new_messages, msg)
                        ELSE acc.new_messages])

\* A variant of the scan that goes on with what it gathered before int()
\* threw.
scan_listing_keeps_partial(msgs, cursor) ==
    LET s == scan(msgs, cursor,
                  [raised |-> FALSE, new_last_message_id |-> 0,
                   new_messages |-> <<>>])
    IN  [exit |-> "ok",
         new_last_message_id |-> s.new_last_message_id,
         new_messages |-> s.new_messages]

\* lines 537-548 and the handler at 557: the scan, from its initial values.
scan_listing(msgs, cursor) ==
    LET s == scan(msgs, cursor,
                  [raised |-> FALSE, new_last_message_id |-> 0,
                   new_messages |-> <<>>])
    IN  IF s.raised
        THEN [exit |-> "error", new_last_message_id |-> 0, new_messages |-> <<>>]
        ELSE [exit |-> "ok",
              new_last_message_id |-> s.new_last_message_id,
              new_messages |-> s.new_messages]

\* A variant of lines 529-535 without the early returns: a result of None or
\* [] is scanned like any listing.
after_listing_no_early_return(authenticated, msgs, cursor) ==
    scan_listing(msgs, cursor)

\* A variant of lines 529-535 without the return of line 535: an empty
\* listing is scanned like any other.
after_listing_scans_empty(authenticated, msgs, cursor) ==
    IF ~authenticated
    THEN [exit |-> "unauthenticated", new_last_message_id |-> 0, new_messages |-> <<>>]
    ELSE scan_listing(msgs, cursor)

\* lines 529-548: what the cycle does with the result of _get_messages_sync.
\* authenticated = FALSE stands for the result None.
after_listing(authenticated, msgs, cursor) ==
    IF ~authenticated
    THEN [exit |-> "unauthenticated", new_last_message_id |-> 0, new_messages |-> <<>>]
    ELSE IF msgs = <<>>
    THEN [exit |-> "empty", new_last_message_id |-> 0, new_messages |-> <<>>]
    ELSE scan_listing(msgs, cursor)

\* A variant of lines 550-555 with the assignment and the save of the cursor
\* inside the loop, after the first notification.
notifications_done_at_once(rest) == TRUE

\* lines 550-555: the cursor is assigned and saved after the for loop, when
\* no record is left to notify.
notifications_done(rest) == rest = <<>>

\* line 551: the order in which the new records are notified
delivery_order(new_messages) == Reverse(new_messages)

\* A variant of _send_message_notification without the try/except of lines
\* 562 and 603: a failing send_message propagates to the caller.
send_message_notification_unguarded(details, sent) ==
    [kind |-> IF details THEN "detailed" ELSE "fallback",
     sends |-> IF details THEN <<"detailed">> ELSE <<"fallback">>,
     failed |-> ~sent,
     raised |-> ~sent]

\* A variant of _send_message_notification that sends the fallback text
\* when the send of the detailed text has failed.
send_message_notification_falls_back(details, sent) ==
    [kind |-> IF details THEN "detailed" ELSE "fallback",
     sends |-> IF ~details THEN <<"fallback">>
               ELSE IF sent THEN <<"detailed">>
               ELSE <<"detailed", "fallback">>,
     failed |-> ~sent,
     raised |-> FALSE]

\* _send_message_notification: one send_message call, the detailed text when
\* the detail fetch gave a result and the fallback text otherwise; whatever is
\* raised inside is caught at line 603.
send_message_notification(details, sent) ==
    [kind |-> IF details THEN "detailed" ELSE "fallback",
     sends |-> IF details THEN <<"detailed">> ELSE <<"fallback">>,
     failed |-> ~sent,
     raised |-> FALSE]

NoCycle ==
    [cursor0 |-> None, file0 |-> NoFile, ensured |-> "no_cycle", exit |-> "none",
     saved |-> "none", attempted |-> <<>>, failed |-> {}]

----------------------------------------------------------------------------
(* The session store: MedicalPortalClient._save_session and _load_session *)

\* A cookie jar holds at most MaxCookies cookies.
MaxCookies == 2

CookieNames == {"sid", "csrf"}

CookiePaths == {"/", "/en"}

\* The value, the flags and the expiry cookies come with.  http_only stands
\* for the attributes of a cookie that _save_session does not write (version,
\* port, discard, rest, ...).
CookieAttributes ==
    {[value |-> "x", secure |-> TRUE, expires |-> None, http_only |-> TRUE],
     [value |-> "y", secure |-> FALSE, expires |-> Some(1), http_only |-> FALSE],
     [value |-> "x", secure |-> FALSE, expires |-> Some(1), http_only |-> TRUE]}

\* A cookie of the jar.
Cookie ==
    {[name |-> n, value |-> a.value, domain |-> "portal", path |-> p,
      secure |-> a.secure, expires |-> a.expires, http_only |-> a.http_only] :
        n \in CookieNames, p \in CookiePaths, a \in CookieAttributes}

\* The jar keeps one cookie per domain, path and name.
CookieKey(c) == <<c.domain, c.path, c.name>>

\* session.cookies.set / set_cookie: the cookie replaces the one of its key.
set_cookie(jar, c) == {d \in jar : CookieKey(d) # CookieKey(c)} \cup {c}

RECURSIVE JarsOf(_)
JarsOf(n) ==
    IF n = 0 THEN {{}}
    ELSE LET J == JarsOf(n - 1) IN
         J \cup {set_cookie(j, c) : j \in J, c \in Cookie}

Jars == JarsOf(MaxCookies)

\* lines 110-117: the dict written for one cookie
cookie_to_dict(c) ==
    [name |-> c.name, value |-> c.value, domain |-> c.domain,
     path |-> c.path, secure |-> c.secure, expires |-> c.expires]

CookieDict == {cookie_to_dict(c) : c \in Cookie}

\* line 91, session.cookies.set(**cookie) with the six keys: create_cookie
\* takes them as given and fills every other attribute with its default.
create_cookie(d) ==
    [name |-> d.name, value |-> d.value, domain |-> d.domain,
     path |-> d.path, secure |-> d.secure, expires |-> d.expires,
     http_only |-> FALSE]

\* One element of the 'cookies' list of a file: a dict of the six keys, or
\* something else (not a dict, a dict without 'name', a dict with a key that
\* create_cookie does not accept).
EntryShapes == {"cookie", "not_object", "missing_name", "unexpected_field"}

SampleDict == cookie_to_dict(CHOOSE c \in Cookie : TRUE)

Entry ==
    {[shape |-> "cookie", d |-> d] : d \in CookieDict}
    \cup {[shape |-> b, d |-> SampleDict] : b \in EntryShapes \ {"cookie"}}

\* What medical_portal_session.json may hold: no file, text that is not JSON,
\* a JSON value that is not an object, an object without 'cookies', an object
\* whose 'cookies' is not a list, an object with a list of entries.
FileKinds ==
    {"absent", "not_json", "not_object", "no_cookies_key", "cookies_not_list",
     "cookies_list"}

AbsentFile == [kind |-> "absent", entries |-> <<>>]

FileContents ==
    {[kind |-> k, entries |-> <<>>] : k \in FileKinds \ {"cookies_list"}}
    \cup {[kind |-> "cookies_list", entries |-> e] :
            e \in UNION {[1..n -> Entry] : n \in 0..MaxCookies}}

\* The orders in which iterating the jar may yield its cookies.
Orders(jar) ==
    {o \in [1..Cardinality(jar) -> jar] : {o[i] : i \in DOMAIN o} = jar}

WriteOutcomes == {"ok", "open_failed", "truncated"}

\* A variant of lines 110-117 that leaves the path out of the dict.
session_data_without_path(order) ==
    [kind |-> "cookies_list",
     entries |-> [i \in DOMAIN order |->
                    [shape |-> "cookie",
                     d |-> [cookie_to_dict(order[i]) EXCEPT !.path = "/"]]]]

\* lines 108-121: the document _save_session builds
session_data(order) ==
    [kind |-> "cookies_list",
     entries |-> [i \in DOMAIN order |->
                    [shape |-> "cookie", d |-> cookie_to_dict(order[i])]]]

\* lines 123-129: open(..., 'w') and json.dump; a failure is logged and
\* swallowed, leaving the old file (open failed) or a cut-off one.
write_session(file, order, outcome) ==
    IF outcome = "ok" THEN session_data(order)
    ELSE IF outcome = "open_failed" THEN file
    ELSE [kind |-> "not_json", entries |-> <<>>]

\* A variant of __exit__ and __del__ that saves the session whatever the
\* flag says.
teardown_always_saves(authenticated, file, order, outcome) ==
    write_session(file, order, outcome)

\* __exit__ and __del__, lines 632-643: _save_session when the flag is set,
\* nothing otherwise.
teardown(authenticated, file, order, outcome) ==
    IF authenticated THEN write_session(file, order, outcome) ELSE file

\* A variant of logout without the try/except of lines 567-572: a failing
\* logout request leaves the method as an exception.
logout_unguarded(jar, authenticated, file, remote, removed) ==
    IF remote # "ok"
    THEN [raised |-> "RequestException", cookies |-> jar,
          is_authenticated |-> authenticated, file |-> file]
    ELSE IF file.kind # "absent" /\ ~removed
    THEN [raised |-> "OSError", cookies |-> {}, is_authenticated |-> FALSE,
          file |-> file]
    ELSE [raised |-> "none", cookies |-> {}, is_authenticated |-> FALSE,
          file |-> AbsentFile]

\* logout, lines 565-582: whatever the GET of /en/logout does, the jar is
\* cleared and the flag reset; then the session file is removed when it
\* exists (an os.remove that fails leaves the method as OSError).
logout(jar, authenticated, file, remote, removed) ==
    IF file.kind # "absent" /\ ~removed
    THEN [raised |-> "OSError", cookies |-> {}, is_authenticated |-> FALSE,
          file |-> file]
    ELSE [raised |-> "none", cookies |-> {}, is_authenticated |-> FALSE,
          file |-> AbsentFile]

\* lines 90-91: the loop over the entries; an entry that is not a dict of
\* accepted keys makes set(**cookie) raise TypeError with the cookies set so
\* far left in the jar.
RECURSIVE restore_cookies(_, _)
restore_cookies(entries, jar) ==
    IF entries = <<>> THEN [raised |-> "none", cookies |-> jar]
    ELSE IF Head(entries).shape # "cookie"
    THEN [raised |-> "TypeError", cookies |-> jar]
    ELSE restore_cookies(Tail(entries), set_cookie(jar, create_cookie(Head(entries).d)))

\* _load_session in a client just constructed (empty jar, flag False).  Only
\* json.JSONDecodeError and KeyError are caught (line 100): the
\* AttributeError of session_data.get on a value that is not a dict and the
\* TypeError of the loop leave the method.
load_session(file, probe) ==
    IF file.kind = "absent"
    THEN [raised |-> "none", cookies |-> {}, is_authenticated |-> FALSE]
    ELSE IF file.kind = "not_json"
    THEN [raised |-> "none", cookies |-> {}, is_authenticated |-> FALSE]
    ELSE IF file.kind = "not_object"
    THEN [raised |-> "AttributeError", cookies |-> {}, is_authenticated |-> FALSE]
    ELSE IF file.kind = "cookies_not_list"
    THEN [raised |-> "TypeError", cookies |-> {}, is_authenticated |-> FALSE]
    ELSE LET r == restore_cookies(file.entries, {}) IN
         IF r.raised # "none"
         THEN [raised |-> r.raised, cookies |-> r.cookies,
               is_authenticated |-> FALSE]
         ELSE [raised |-> "none", cookies |-> r.cookies,
               is_authenticated |-> is_session_valid(probe)]

\* The response begin_authentication never gets when the GET of the login
\* page (lines 171-172) fails.
GetFailed ==
    [raised |-> TRUE, login |-> FALSE, sms |-> FALSE, login_sms |-> FALSE,
     markers |-> FALSE]

\* The record kept of the client operation completed last: its name, the
\* response it classified, what it returned, whether it called _save_session
\* and how the write went, the stored state it found, the outcome of its
\* probe, the jar it wrote and the session file it found; for ask_question
\* the length of the question, the attachment named, the requests issued and
\* whether a file went with the POST; for list_messages and
\* get_message_details the page fetched and the value returned.
NoCall ==
    [op |-> "none", r |-> GetFailed, result |-> "none", saved |-> "none",
     flag0 |-> FALSE, file0 |-> FALSE, cursor0 |-> None, statefile0 |-> NoFile,
     valid |-> FALSE, probed |-> FALSE, probe |-> "none", s |-> {},
     snapshot0 |-> AbsentFile, question |-> 0, attachment |-> "none",
     requests |-> <<>>, attached |-> FALSE, page |-> "none",
     blocks |-> NoBlocks, listing |-> <<>>, details |-> None,
     parts |-> <<>>, date0 |-> None, date |-> None, time |-> None,
     archive |-> <<>>, chat |-> "none", after |-> "none"]

Recorded(keep, c) == IF keep THEN c ELSE NoCall

----------------------------------------------------------------------------
\* State after TelegramMedicalBot.__init__ on a fresh deployment: no cursor
\* file; the client is authenticated when a session file was left by an
\* earlier use of the client and the probe accepted it.
Init ==
    /\ state_file = NoFile
    /\ last_message_id = load_last_message_state(state_file)
    /\ message_checker_running = FALSE
    /\ pc = "init"
    /\ messages = <<>>
    /\ todo = <<>>
    /\ new_last_message_id = 0
    /\ cycle = NoCycle
    /\ session_file \in BOOLEAN
    /\ \E probe \in ProbeOutcomes :
          is_authenticated = (session_file /\ is_session_valid(probe))
    /\ hpc = "idle"
    /\ conv = "END"
    /\ twofa_data = FALSE
    /\ notified = {}
    /\ loginBy = {}
    /\ cookies = {}
    /\ snapshot = AbsentFile
    /\ call = NoCall

----------------------------------------------------------------------------
(* The poll worker *)

\* message_checker_worker, line 608
\* A variant of line 613 that does not await the cycle: the worker may start
\* the next one while the last is still at one of its awaits.
cycle_may_start_unawaited(position) ==
    position \in {"loop", "ensure", "list", "notify"}

\* lines 611-613 and 640: the one worker task awaits check_for_new_messages,
\* so it starts a cycle only from its loop test, the last call being over.
cycle_may_start(position) == position = "loop"

\* A variant of line 611 that loops whatever the flag says.
loop_test_ignores_flag(running) == TRUE

\* line 611: the test of the worker's while loop
loop_test(running) == running

\* lines 519-558: every Exception raised in the body of
\* check_for_new_messages is caught at line 557, so whatever the exit of the
\* cycle the coroutine returns to the worker without raising.
check_for_new_messages_raises(exit) == FALSE

\* lines 612-621: where the worker waits after the cycle: in the back-off of
\* line 617 when check_for_new_messages raised, else in the sleep of 621.
worker_wait(raised) == IF raised THEN "backoff" ELSE "sleep"

WorkerStart ==
    /\ pc = "init"
    /\ message_checker_running' = TRUE
    /\ pc' = "loop"
    /\ UNCHANGED <<last_message_id, state_file, messages, todo,
                   new_last_message_id, cycle, is_authenticated, session_file,
                   hpc, conv, twofa_data, notified, loginBy>>
    /\ UNCHANGED <<storeVars, call>>

\* lines 611-613 and 517-527: the loop test, the entry of
\* check_for_new_messages and the hand-over of _get_messages_sync to the
\* executor.
PollStart ==
    /\ cycle_may_start(pc)
    /\ loop_test(message_checker_running)
    /\ IF message_checker_running
       THEN /\ pc' = "ensure"
            /\ cycle' = [NoCycle EXCEPT !.cursor0 = last_message_id,
                                        !.file0 = state_file,
                                        !.ensured = "pending",
                                        !.exit = "running"]
       ELSE /\ pc' = "returned"
            /\ cycle' = [NoCycle EXCEPT !.exit = "not_running"]
    /\ messages' = <<>>
    /\ todo' = <<>>
    /\ new_last_message_id' = 0
    /\ UNCHANGED <<last_message_id, state_file, message_checker_running,
                   is_authenticated, session_file, hpc, conv, twofa_data,
                   notified, loginBy>>
    /\ UNCHANGED <<storeVars, call>>

\* lines 554-555, reached when every new record has been handed to
\* _send_message_notification.
Finish(c, newLast, written) ==
    /\ last_message_id' = Some(newLast)
    /\ state_file' = save_last_message_state(state_file, newLast, written)
    /\ cycle' = [c EXCEPT !.exit = "ok",
                          !.saved = IF written THEN "ok" ELSE "failed"]
    /\ pc' = "returned"

\* The continuation of check_for_new_messages after the executor job: lines
\* 529-548, and 554-555 as well when there is nothing to notify.
Continue(c, authenticated, msgs, written) ==
    LET r == after_listing(authenticated, msgs, last_message_id) IN
    /\ messages' = msgs
    /\ new_last_message_id' = r.new_last_message_id
    /\ todo' = delivery_order(r.new_messages)
    /\ IF r.exit # "ok"
       THEN /\ pc' = "returned"
            /\ cycle' = [c EXCEPT !.exit = r.exit]
            /\ UNCHANGED <<last_message_id, state_file>>
       ELSE IF notifications_done(r.new_messages)
       THEN Finish(c, r.new_last_message_id, written)
       ELSE /\ pc' = "notify"
            /\ cycle' = c
            /\ UNCHANGED <<last_message_id, state_file>>

\* _get_messages_sync in its executor thread, line 470: _ensure_authenticated.
\* When it fails the job returns None and the cycle returns at once.
PollEnsure ==
    /\ pc = "ensure"
    /\ \E probe \in ProbeOutcomes :
         LET e == ensure_authenticated(is_authenticated, probe) IN
         /\ loginBy' = IF e.login THEN loginBy \cup {"poll"} ELSE loginBy
         /\ IF e.ok
            THEN /\ pc' = "list"
                 /\ cycle' = [cycle EXCEPT !.ensured = "yes"]
                 /\ UNCHANGED <<last_message_id, state_file, messages, todo,
                                new_last_message_id>>
            ELSE Continue([cycle EXCEPT !.ensured = "no"], FALSE, <<>>, FALSE)
    /\ UNCHANGED <<message_checker_running, is_authenticated, session_file,
                   hpc, conv, twofa_data, notified>>
    /\ UNCHANGED <<storeVars, call>>

\* _get_messages_sync, line 472: list_messages('inbox'), then the
\* continuation of the cycle on the event loop.  W: the outcomes the write
\* of the state file may have.
PollListW(W) ==
    /\ pc = "list"
    /\ \E page \in PageOutcomes, written \in W :
       \E entries \in IF page = "links" THEN Listings ELSE {<<>>} :
         Continue(cycle, TRUE,
                  list_messages(is_authenticated, page, entries).messages,
                  written)
    /\ UNCHANGED <<message_checker_running, is_authenticated, session_file,
                   hpc, conv, twofa_data, notified, loginBy>>
    /\ UNCHANGED <<storeVars, call>>

PollList == PollListW(BOOLEAN)

PollListWritten == PollListW({TRUE})

\* One turn of the loop at lines 551-552: _send_message_notification for the
\* next record (its _get_message_details_sync job, then send_message); after
\* the last one, lines 554-555.
DeliverK(W, keep) ==
    /\ pc = "notify"
    /\ todo # <<>>
    /\ \E probe \in ProbeOutcomes, fetched \in BOOLEAN, sent \in BOOLEAN,
          written \in W :
         LET msg == Head(todo)
             id == Val(msg.id)
             e == ensure_authenticated(is_authenticated, probe)
             n == send_message_notification(e.ok /\ fetched, sent)
             c == [cycle EXCEPT !.attempted = Append(@, id),
                                !.failed = IF n.failed THEN @ \cup {id} ELSE @]
         IN
         /\ loginBy' = IF e.login THEN loginBy \cup {"poll"} ELSE loginBy
         /\ notified' = notified \cup {id}
         /\ todo' = Tail(todo)
         /\ call' = Recorded(keep,
                        [NoCall EXCEPT !.op = "_send_message_notification",
                                       !.valid = e.ok /\ fetched,
                                       !.result = n.kind,
                                       !.requests = n.sends,
                                       !.saved = IF sent THEN "sent"
                                                 ELSE "failed"])
         /\ IF n.raised
            THEN /\ pc' = "returned"
                 /\ cycle' = [c EXCEPT !.exit = "error"]
                 /\ UNCHANGED <<last_message_id, state_file>>
            ELSE IF notifications_done(Tail(todo))
            THEN Finish(c, new_last_message_id, written)
            ELSE /\ pc' = "notify"
                 /\ cycle' = c
                 /\ UNCHANGED <<last_message_id, state_file>>
    /\ UNCHANGED <<message_checker_running, messages, new_last_message_id,
                   is_authenticated, session_file, hpc, conv, twofa_data>>
    /\ UNCHANGED storeVars

DeliverW(W) == DeliverK(W, FALSE)

Deliver == DeliverW(BOOLEAN)

DeliverWritten == DeliverW({TRUE})

DeliverRecorded == DeliverK({TRUE}, TRUE)

\* lines 614-621: check_for_new_messages is over and the worker goes to its
\* wait.
Sleep ==
    /\ pc = "returned"
    /\ pc' = worker_wait(check_for_new_messages_raises(cycle.exit))
    /\ cycle' = NoCycle
    /\ messages' = <<>>
    /\ todo' = <<>>
    /\ new_last_message_id' = 0
    /\ UNCHANGED <<last_message_id, state_file, message_checker_running,
                   is_authenticated, session_file, hpc, conv, twofa_data,
                   notified, loginBy>>
    /\ UNCHANGED <<storeVars, call>>

\* A wait ends: after the back-off of line 617 comes the sleep of line 621,
\* after the sleep the loop test at line 611.
Wake ==
    /\ pc \in {"sleep", "backoff"}
    /\ pc' = IF pc = "backoff" THEN "sleep" ELSE "loop"
    /\ UNCHANGED <<last_message_id, state_file, message_checker_running,
                   messages, todo, new_last_message_id, cycle,
                   is_authenticated, session_file, hpc, conv, twofa_data,
                   notified, loginBy>>
    /\ UNCHANGED <<storeVars, call>>

----------------------------------------------------------------------------
(* The portal client's login operations *)

\* What the final response of a login or challenge POST looks like to the
\* classification: raised (transport error or raise_for_status), which of
\* the substrings '/login', '/sms' and '/login/sms' its URL holds, and
\* whether its text holds both login-page markers.
Responses ==
    {r \in [raised : BOOLEAN, login : BOOLEAN, sms : BOOLEAN,
            login_sms : BOOLEAN, markers : BOOLEAN] :
        r.login_sms => (r.login /\ r.sms)}

\* A variant of begin_authentication without the except clauses of lines
\* 220-225: a transport error leaves the method as an exception.
begin_authentication_unguarded(r) ==
    IF r.raised THEN "raised"
    ELSE IF r.login_sms THEN "TwoFactorAuthData"
    ELSE IF r.login THEN "False"
    ELSE IF r.markers THEN "False"
    ELSE "True"

\* A variant of begin_authentication without the text check of line 211: the
\* URL alone decides.
begin_authentication_url_only(r) ==
    IF r.raised THEN "False"
    ELSE IF r.login_sms THEN "TwoFactorAuthData"
    ELSE IF r.login THEN "False"
    ELSE "True"

\* begin_authentication, lines 185-225
begin_authentication(r) ==
    IF r.raised THEN "False"
    ELSE IF r.login_sms THEN "TwoFactorAuthData"
    ELSE IF r.login THEN "False"
    ELSE IF r.markers THEN "False"
    ELSE "True"

\* complete_two_factor_auth, lines 246-269
complete_two_factor_auth(r) ==
    IF r.raised THEN FALSE
    ELSE IF r.login /\ ~r.sms THEN FALSE
    ELSE IF r.markers THEN FALSE
    ELSE TRUE

\* _save_session: a failing write is logged and swallowed.
save_session(file, written) == IF written THEN TRUE ELSE file

\* A variant of lines 215-216 and 259-260 that also writes the session when
\* the login ended without success.
saves_session_always(result) == TRUE

\* lines 215-216 and 259-260: the flag is set and _save_session is called on
\* the path that returns True, and on no other.
saves_session(result) == result = "True"

\* The record of a login operation.
LoginCall(op, r, result, written, authenticated, file) ==
    [NoCall EXCEPT !.op = op, !.r = r, !.result = result,
                   !.saved = IF ~saves_session(result) THEN "none"
                             ELSE IF written THEN "ok" ELSE "failed",
                   !.flag0 = authenticated, !.file0 = file]

----------------------------------------------------------------------------
(* The chat handlers *)

\* The chats an update may come from: the one of TELEGRAM_CHAT_ID and
\* another.
Chats == {"configured", "other"}

\* A variant of _is_authorized_chat that lets every chat in.
is_authorized_chat_any(chat) == TRUE

\* _is_authorized_chat, lines 109-117
is_authorized_chat(chat) == chat = "configured"

\* The record of an update that has reached a handler.
UpdateCall(handler, chat) ==
    [NoCall EXCEPT !.op = handler, !.chat = chat]

\* start_auth, lines 292-303: /auth is an entry point of the conversation,
\* so it is taken only outside a conversation; the handler hands
\* _begin_authentication_sync to the executor.
StartAuthK(c) ==
    /\ hpc = "idle"
    /\ conv = "END"
    /\ hpc' = "login_get"
    /\ loginBy' = loginBy \cup {"auth"}
    /\ call' = c
    /\ UNCHANGED <<pollVars, is_authenticated, session_file, conv, twofa_data>>
    /\ UNCHANGED storeVars

StartAuth == StartAuthK(call)

\* begin_authentication in its executor thread, lines 170-172: the GET of the
\* login page.  A failure ends the job with False and start_auth with END.
LoginGetK(keep) ==
    /\ hpc = "login_get"
    /\ \E ok \in BOOLEAN :
         IF ok
         THEN hpc' = "login_post" /\ call' = call
         ELSE /\ hpc' = "idle"
              /\ call' = Recorded(keep,
                            LoginCall("begin_authentication", GetFailed,
                                      begin_authentication(GetFailed), FALSE,
                                      is_authenticated, session_file))
    /\ UNCHANGED <<pollVars, is_authenticated, session_file, conv, twofa_data,
                   loginBy, storeVars>>

LoginGet == LoginGetK(FALSE)

LoginGetRecorded == LoginGetK(TRUE)

\* begin_authentication, lines 185-225: the POST and its classification;
\* then start_auth, lines 305-317.
LoginPostK(keep) ==
    /\ hpc = "login_post"
    /\ \E r \in Responses, written \in BOOLEAN :
         LET result == begin_authentication(r) IN
         /\ is_authenticated' = (is_authenticated \/ result = "True")
         /\ session_file' = IF saves_session(result)
                            THEN save_session(session_file, written)
                            ELSE session_file
         /\ twofa_data' = (twofa_data \/ result = "TwoFactorAuthData")
         /\ conv' = IF result = "TwoFactorAuthData"
                    THEN "WAITING_FOR_SMS_CODE" ELSE "END"
         /\ call' = Recorded(keep,
                       LoginCall("begin_authentication", r, result, written,
                                 is_authenticated, session_file))
    /\ hpc' = "idle"
    /\ UNCHANGED <<pollVars, loginBy, storeVars>>

LoginPost == LoginPostK(FALSE)

LoginPostRecorded == LoginPostK(TRUE)

\* handle_sms_code, lines 324-343: a text message while the conversation
\* waits for the code.
HandleSmsCodeK(c) ==
    /\ hpc = "idle"
    /\ conv = "WAITING_FOR_SMS_CODE"
    /\ IF twofa_data
       THEN hpc' = "sms_post" /\ conv' = conv
       ELSE hpc' = "idle" /\ conv' = "END"
    /\ call' = c
    /\ UNCHANGED <<pollVars, is_authenticated, session_file, twofa_data, loginBy>>
    /\ UNCHANGED storeVars

HandleSmsCode == HandleSmsCodeK(call)

\* complete_two_factor_auth in its executor thread, then handle_sms_code,
\* lines 345-361.
SmsPostK(keep) ==
    /\ hpc = "sms_post"
    /\ \E r \in Responses, written \in BOOLEAN :
         LET success == complete_two_factor_auth(r)
             result == IF success THEN "True" ELSE "False"
         IN
         /\ is_authenticated' = (is_authenticated \/ success)
         /\ session_file' = IF saves_session(result)
                            THEN save_session(session_file, written)
                            ELSE session_file
         /\ twofa_data' = (twofa_data /\ ~success)
         /\ conv' = IF success THEN "END" ELSE "WAITING_FOR_SMS_CODE"
         /\ call' = Recorded(keep,
                       LoginCall("complete_two_factor_auth", r, result,
                                 written, is_authenticated, session_file))
    /\ hpc' = "idle"
    /\ UNCHANGED <<pollVars, loginBy, storeVars>>

SmsPost == SmsPostK(FALSE)

SmsPostRecorded == SmsPostK(TRUE)

\* cancel_auth, lines 363-369: /cancel while the conversation waits.
CancelAuthK(c) ==
    /\ hpc = "idle"
    /\ conv = "WAITING_FOR_SMS_CODE"
    /\ conv' = "END"
    /\ call' = c
    /\ UNCHANGED <<pollVars, is_authenticated, session_file, hpc, twofa_data,
                   loginBy>>
    /\ UNCHANGED storeVars

CancelAuth == CancelAuthK(call)

\* The record of a call of _ensure_authenticated: the first call of a pair
\* notes the stored state it finds, the second joins its outcome to the
\* first's.  valid: the flag was set and the probe got an answer other than
\* 303, on every call so far.
EnsureCall(e, probe) ==
    LET valid == is_authenticated /\ probe = "ok" IN
    IF call.op = "_ensure_authenticated"
    THEN [call EXCEPT !.op = "_ensure_authenticated twice",
                      !.probe = probe,
                      !.result = IF @ = "True" /\ e.ok THEN "True" ELSE "False",
                      !.valid = @ /\ valid,
                      !.probed = @ /\ e.probed]
    ELSE [NoCall EXCEPT !.op = "_ensure_authenticated",
                        !.probe = probe,
                        !.result = IF e.ok THEN "True" ELSE "False",
                        !.valid = valid,
                        !.probed = e.probed,
                        !.flag0 = is_authenticated,
                        !.file0 = session_file,
                        !.cursor0 = last_message_id,
                        !.statefile0 = state_file]

\* A handler that reads the portal: messages_command (_get_messages_sync),
\* ask_command (_ask_question_sync) or the msg_ callback
\* (_get_message_details_sync).  Each starts with _ensure_authenticated and
\* changes nothing the bot keeps.
ReadCommand(caller, keep) ==
    /\ hpc = "idle"
    /\ \E probe \in ProbeOutcomes :
         LET e == ensure_authenticated(is_authenticated, probe) IN
         /\ loginBy' = IF e.login THEN loginBy \cup {caller} ELSE loginBy
         /\ call' = Recorded(keep, EnsureCall(e, probe))
    /\ UNCHANGED <<pollVars, is_authenticated, session_file, chatVars,
                   storeVars>>

MessagesCommand == ReadCommand("messages", FALSE)

AskCommand == ReadCommand("ask", FALSE)

DetailCallback == ReadCommand("detail", FALSE)

MessagesCommandRecorded == ReadCommand("messages", TRUE)

----------------------------------------------------------------------------
(* The process *)

\* The process ends at any point and is started again: __init__ reloads the
\* cursor from the state file (line 80) and the client reloads its session
\* (_load_session); everything else in memory is gone.
Restart ==
    /\ last_message_id' = load_last_message_state(state_file)
    /\ message_checker_running' = FALSE
    /\ pc' = "init"
    /\ messages' = <<>>
    /\ todo' = <<>>
    /\ new_last_message_id' = 0
    /\ cycle' = NoCycle
    /\ \E probe \in ProbeOutcomes :
         is_authenticated' = (session_file /\ is_session_valid(probe))
    /\ hpc' = "idle"
    /\ conv' = "END"
    /\ twofa_data' = FALSE
    /\ call' = NoCall
    /\ UNCHANGED <<state_file, session_file, notified, loginBy, storeVars>>

Next ==
    \/ WorkerStart
    \/ PollStart
    \/ PollEnsure
    \/ PollList
    \/ Deliver
    \/ Sleep
    \/ Wake
    \/ StartAuth
    \/ LoginGet
    \/ LoginPost
    \/ HandleSmsCode
    \/ SmsPost
    \/ CancelAuth
    \/ MessagesCommand
    \/ AskCommand
    \/ DetailCallback
    \/ Restart

Spec == Init /\ [][Next]_vars

\* The poll worker alone, with the chat silent.
NextPoll ==
    \/ WorkerStart
    \/ PollStart
    \/ PollEnsure
    \/ PollList
    \/ Deliver
    \/ Sleep
    \/ Wake
    \/ Restart

SpecPoll == Init /\ [][NextPoll]_vars

\* The poll worker in one run of the process, every write of the state file
\* succeeding.
NextCycles ==
    \/ WorkerStart
    \/ PollStart
    \/ PollEnsure
    \/ PollListWritten
    \/ DeliverWritten
    \/ Sleep
    \/ Wake

SpecCycles == Init /\ [][NextCycles]_vars

\* The poll worker, each _send_message_notification recorded in call.
NextNotify ==
    \/ WorkerStart
    \/ PollStart
    \/ PollEnsure
    \/ PollListWritten
    \/ DeliverRecorded
    \/ Sleep
    \/ Wake

SpecNotify == Init /\ [][NextNotify]_vars

\* lines 611 and 626: the loop test fails and the worker returns.
WorkerExit ==
    /\ pc = "loop"
    /\ ~loop_test(message_checker_running)
    /\ pc' = "stopped"
    /\ UNCHANGED <<last_message_id, state_file, message_checker_running,
                   messages, todo, new_last_message_id, cycle,
                   is_authenticated, session_file, hpc, conv, twofa_data,
                   notified, loginBy>>
    /\ UNCHANGED <<storeVars, call>>

\* shutdown, line 656, called once the worker task runs (lines 640-652).
Shutdown ==
    /\ pc # "init"
    /\ message_checker_running' = FALSE
    /\ UNCHANGED <<last_message_id, state_file, pc, messages, todo,
                   new_last_message_id, cycle, is_authenticated, session_file,
                   hpc, conv, twofa_data, notified, loginBy>>
    /\ UNCHANGED <<storeVars, call>>

\* message_checker_task.cancel(), line 651: CancelledError is raised in the
\* worker at the await it is suspended in.  In the sleep of line 621 it is
\* caught (622-624) and the worker breaks out of the loop; at the awaits of
\* the cycle and in the back-off it is no Exception, passes the handlers of
\* lines 557, 603 and 614 and ends the task.
CancelTask ==
    /\ pc \in {"ensure", "list", "notify", "sleep", "backoff"}
    /\ pc' = IF pc = "sleep" THEN "stopped" ELSE "cancelled"
    /\ UNCHANGED <<last_message_id, state_file, message_checker_running,
                   messages, todo, new_last_message_id, cycle,
                   is_authenticated, session_file, hpc, conv, twofa_data,
                   notified, loginBy>>
    /\ UNCHANGED <<storeVars, call>>

\* The steps of the worker task.
WorkerStep ==
    \/ WorkerStart
    \/ PollStart
    \/ PollEnsure
    \/ PollListWritten
    \/ DeliverWritten
    \/ Sleep
    \/ Wake
    \/ WorkerExit

\* The poll worker with the two stop signals.  The event loop runs the
\* worker whenever it can take a step, executor jobs return and sleeps end.
NextStop ==
    \/ WorkerStart
    \/ PollStart
    \/ PollEnsure
    \/ PollListWritten
    \/ DeliverWritten
    \/ Sleep
    \/ Wake
    \/ WorkerExit
    \/ Shutdown
    \/ CancelTask

SpecStop == Init /\ [][NextStop]_vars /\ WF_vars(WorkerStep)

\* The chat handlers alone, with the poll worker not started, each client
\* operation leaving its record in call.
NextLogin ==
    \/ StartAuth
    \/ LoginGetRecorded
    \/ LoginPostRecorded
    \/ HandleSmsCode
    \/ SmsPostRecorded
    \/ CancelAuth
    \/ MessagesCommandRecorded
    \/ Restart

SpecLogin == Init /\ [][NextLogin]_vars

\* The first lines of every handler: an update of a chat that is not the
\* authorized one makes the handler return at once.
Ignored(c) ==
    /\ call' = c
    /\ UNCHANGED <<pollVars, is_authenticated, session_file, chatVars,
                   loginBy, storeVars>>

\* /auth from some chat
StartAuthFrom ==
    \E chat \in Chats :
        IF is_authorized_chat(chat)
        THEN StartAuthK(UpdateCall("start_auth", chat))
        ELSE Ignored(UpdateCall("start_auth", chat))

\* a text message from some chat, handed to handle_sms_code
HandleSmsCodeFrom ==
    \E chat \in Chats :
        IF is_authorized_chat(chat)
        THEN HandleSmsCodeK(UpdateCall("handle_sms_code", chat))
        ELSE Ignored(UpdateCall("handle_sms_code", chat))

\* /cancel from some chat
CancelAuthFrom ==
    \E chat \in Chats :
        IF is_authorized_chat(chat)
        THEN CancelAuthK(UpdateCall("cancel_auth", chat))
        ELSE Ignored(UpdateCall("cancel_auth", chat))

\* /messages, /ask or the press of a button from some chat: lines 205, 248
\* and 373, then the job with _ensure_authenticated and the portal
\* operation of the handler.
ReadFrom ==
    /\ hpc = "idle"
    /\ \E chat \in Chats,
          handler \in {"messages_command", "ask_command",
                       "handle_callback_query"} :
        IF is_authorized_chat(chat)
        THEN \E probe \in ProbeOutcomes :
               LET e == ensure_authenticated(is_authenticated, probe) IN
               /\ loginBy' = IF e.login THEN loginBy \cup {handler}
                             ELSE loginBy
               /\ call' = [UpdateCall(handler, chat) EXCEPT
                              !.probed = e.probed,
                              !.requests = (IF e.probed THEN <<"PROBE">>
                                            ELSE <<>>)
                                           \o (IF e.ok THEN <<"GET">>
                                               ELSE <<>>)]
               /\ UNCHANGED <<pollVars, is_authenticated, session_file,
                              chatVars, storeVars>>
        ELSE Ignored(UpdateCall(handler, chat))

\* /start or /help from some chat: lines 155-201, a reply and nothing else.
InfoFrom ==
    \E chat \in Chats, handler \in {"start_command", "help_command"} :
        Ignored(UpdateCall(handler, chat))

\* The chat handlers with updates from both chats.
NextChat ==
    \/ StartAuthFrom
    \/ LoginGet
    \/ LoginPost
    \/ HandleSmsCodeFrom
    \/ SmsPost
    \/ CancelAuthFrom
    \/ ReadFrom
    \/ InfoFrom
    \/ Restart

SpecChat == Init /\ [][NextChat]_vars

----------------------------------------------------------------------------
(* The session store on its own *)

\* Either a client that has gathered a jar of cookies and no session file
\* yet, or a session file of any content and no client yet.
InitStore ==
    /\ state_file = NoFile
    /\ last_message_id = None
    /\ message_checker_running = FALSE
    /\ pc = "init"
    /\ messages = <<>>
    /\ todo = <<>>
    /\ new_last_message_id = 0
    /\ cycle = NoCycle
    /\ \/ cookies \in Jars /\ snapshot = AbsentFile
       \/ cookies = {} /\ snapshot \in FileContents
    /\ session_file = (snapshot.kind # "absent")
    /\ is_authenticated = FALSE
    /\ hpc = "idle"
    /\ conv = "END"
    /\ twofa_data = FALSE
    /\ notified = {}
    /\ loginBy = {}
    /\ call = NoCall

\* _save_session on the client's jar.
SaveSession ==
    /\ \E order \in Orders(cookies), outcome \in WriteOutcomes :
         /\ snapshot' = write_session(snapshot, order, outcome)
         /\ call' = [NoCall EXCEPT !.op = "_save_session",
                                   !.saved = outcome,
                                   !.s = cookies,
                                   !.snapshot0 = snapshot]
    /\ session_file' = (snapshot'.kind # "absent")
    /\ UNCHANGED <<pollVars, is_authenticated, chatVars, loginBy, cookies>>

\* MedicalPortalClient.__init__, lines 58-79: a client is constructed with an
\* empty jar and the flag False, and calls _load_session.
LoadSession ==
    /\ \E probe \in ProbeOutcomes :
         LET l == load_session(snapshot, probe) IN
         /\ cookies' = l.cookies
         /\ is_authenticated' = l.is_authenticated
         /\ call' = [NoCall EXCEPT
                        !.op = "_load_session",
                        !.result = l.raised,
                        !.probe = probe,
                        !.saved = IF call.op = "_save_session"
                                  THEN call.saved ELSE "none",
                        !.s = IF call.op = "_save_session" THEN call.s ELSE {}]
    /\ UNCHANGED <<pollVars, session_file, chatVars, loginBy, snapshot>>

\* logout on the client.
Logout ==
    /\ \E remote \in {"ok", "network_error"}, removed \in BOOLEAN :
         LET l == logout(cookies, is_authenticated, snapshot, remote, removed) IN
         /\ cookies' = l.cookies
         /\ is_authenticated' = l.is_authenticated
         /\ snapshot' = l.file
         /\ call' = [NoCall EXCEPT !.op = "logout",
                                   !.result = l.raised,
                                   !.probe = remote,
                                   !.snapshot0 = snapshot]
    /\ session_file' = (snapshot'.kind # "absent")
    /\ UNCHANGED <<pollVars, chatVars, loginBy>>

\* The with block is left or the client is collected.
Teardown ==
    /\ \E method \in {"__exit__", "__del__"}, order \in Orders(cookies),
          outcome \in WriteOutcomes :
         /\ snapshot' = teardown(is_authenticated, snapshot, order, outcome)
         /\ call' = [NoCall EXCEPT !.op = method,
                                   !.flag0 = is_authenticated,
                                   !.saved = IF is_authenticated THEN outcome
                                             ELSE "none",
                                   !.s = cookies,
                                   !.snapshot0 = snapshot,
                                   !.after = call.op]
    /\ session_file' = (snapshot'.kind # "absent")
    /\ UNCHANGED <<pollVars, is_authenticated, chatVars, loginBy, cookies>>

NextStore ==
    \/ SaveSession
    \/ LoadSession
    \/ Logout
    \/ Teardown

SpecStore == InitStore /\ [][NextStore]_vars

----------------------------------------------------------------------------
(* The client's operations on the portal, each call recorded in call *)

\* A cookie the portal sets with a response.
ServerCookie ==
    [name |-> "sid", value |-> "y", domain |-> "portal", path |-> "/",
     secure |-> FALSE, expires |-> Some(1), http_only |-> FALSE]

\* What a client operation leaves of the jar and of the session file: the
\* session keeps the cookies of the responses to the requests it has sent,
\* and none of these operations writes the file.  S: whether a response may
\* set a cookie.
Respond(S, requests) ==
    /\ \E set \in S :
         cookies' = IF set /\ requests # <<>>
                    THEN set_cookie(cookies, ServerCookie)
                    ELSE cookies
    /\ snapshot' = snapshot

\* ask_command, lines 246-290, with _ask_question_sync, lines 487-491: no
\* arguments and a question of more than 600 characters are answered at once;
\* else _ensure_authenticated, then ask_question without an attachment.
ask_command(authenticated, probe, question, get_ok, post) ==
    IF question = 0
    THEN [result |-> "usage", requests |-> <<>>, attached |-> FALSE]
    ELSE IF question > QuestionLimit
    THEN [result |-> "too_long", requests |-> <<>>, attached |-> FALSE]
    ELSE LET e == ensure_authenticated(authenticated, probe)
             probed == IF e.probed THEN <<"PROBE">> ELSE <<>>
             a == ask_question(authenticated, question, "none", get_ok, post)
         IN  IF ~e.ok
             THEN [result |-> "auth_required", requests |-> probed,
                   attached |-> FALSE]
             ELSE [a EXCEPT !.requests = probed \o @]

\* A caller of the client (example_usage.py line 263 among them) calls
\* ask_question.
AskQuestionK(S) ==
    /\ \E question \in QuestionLengths, attachment \in Attachments,
          get_ok \in BOOLEAN, post \in PostOutcomes :
         LET a == ask_question(is_authenticated, question, attachment,
                               get_ok, post) IN
         /\ call' = [NoCall EXCEPT !.op = "ask_question",
                                !.flag0 = is_authenticated,
                                !.question = question,
                                !.attachment = attachment,
                                !.result = a.result,
                                !.requests = a.requests,
                                !.attached = a.attached,
                                !.s = cookies,
                                !.snapshot0 = snapshot]
         /\ Respond(S, a.requests)
    /\ UNCHANGED <<pollVars, is_authenticated, session_file, chatVars,
                   loginBy>>

AskQuestionCall == AskQuestionK({FALSE})

\* The /ask command of the chat.
AskCommandCall ==
    /\ hpc = "idle"
    /\ \E question \in QuestionLengths, probe \in ProbeOutcomes,
          get_ok \in BOOLEAN, post \in PostOutcomes :
         LET a == ask_command(is_authenticated, probe, question, get_ok,
                              post) IN
         call' = [NoCall EXCEPT !.op = "ask_command",
                                !.flag0 = is_authenticated,
                                !.probe = probe,
                                !.question = question,
                                !.result = a.result,
                                !.requests = a.requests,
                                !.attached = a.attached]
    /\ UNCHANGED <<pollVars, is_authenticated, session_file, chatVars,
                   loginBy, storeVars>>

\* A call of list_messages on a folder whose listing is one of L.
ListMessagesK(S, L) ==
    /\ \E page \in PageOutcomes :
       \E entries \in IF page = "links" THEN L ELSE {<<>>} :
         LET l == list_messages(is_authenticated, page, entries) IN
         /\ call' = [NoCall EXCEPT !.op = "list_messages",
                                   !.flag0 = is_authenticated,
                                   !.page = page,
                                   !.result = IF l.raised THEN "raised"
                                              ELSE "returned",
                                   !.listing = l.messages,
                                   !.requests = l.requests,
                                   !.s = cookies,
                                   !.snapshot0 = snapshot]
         /\ Respond(S, l.requests)
    /\ UNCHANGED <<pollVars, is_authenticated, session_file, chatVars,
                   loginBy>>

ListMessagesCall == ListMessagesK({FALSE}, Listings)

\* A call of get_message_details.
GetMessageDetailsK(S) ==
    /\ \E fetch \in FetchOutcomes, blocks \in DetailBlocks :
         LET d == get_message_details(is_authenticated, fetch, blocks) IN
         /\ call' = [NoCall EXCEPT !.op = "get_message_details",
                                   !.flag0 = is_authenticated,
                                   !.page = fetch,
                                   !.blocks = blocks,
                                   !.result = IF d.raised THEN "raised"
                                              ELSE "returned",
                                   !.details = d.details,
                                   !.requests = d.requests,
                                   !.s = cookies,
                                   !.snapshot0 = snapshot]
         /\ Respond(S, d.requests)
    /\ UNCHANGED <<pollVars, is_authenticated, session_file, chatVars,
                   loginBy>>

GetMessageDetailsCall == GetMessageDetailsK({FALSE})

\* A call of is_session_valid, the probe.
ProbeCall ==
    /\ \E probe \in ProbeOutcomes :
         call' = [NoCall EXCEPT !.op = "is_session_valid",
                                !.flag0 = is_authenticated,
                                !.probe = probe,
                                !.result = IF is_session_valid(probe)
                                           THEN "True" ELSE "False"]
    /\ UNCHANGED <<pollVars, is_authenticated, session_file, chatVars,
                   loginBy, storeVars>>

NextClient ==
    \/ ProbeCall
    \/ AskQuestionCall
    \/ AskCommandCall
    \/ ListMessagesCall
    \/ GetMessageDetailsCall

SpecClient == Init /\ [][NextClient]_vars

\* A listing of at most one entry.
ShortListings == {l \in Listings : Len(l) <= 1}

ListMessagesJar == ListMessagesK(BOOLEAN, ShortListings)

GetMessageDetailsJar == GetMessageDetailsK(BOOLEAN)

AskQuestionJar == AskQuestionK(BOOLEAN)

\* A call of get_all_messages.
GetAllMessagesJar ==
    /\ \E inbox_page \in PageOutcomes, archive_page \in PageOutcomes :
       \E inbox \in IF inbox_page = "links" THEN ShortListings ELSE {<<>>},
          archive \in IF archive_page = "links" THEN ShortListings
                      ELSE {<<>>} :
         LET g == get_all_messages(is_authenticated, inbox_page, inbox,
                                   archive_page, archive) IN
         /\ call' = [NoCall EXCEPT !.op = "get_all_messages",
                                   !.flag0 = is_authenticated,
                                   !.listing = g.inbox,
                                   !.archive = g.archive,
                                   !.requests = g.requests,
                                   !.s = cookies,
                                   !.snapshot0 = snapshot]
         /\ Respond(BOOLEAN, g.requests)
    /\ UNCHANGED <<pollVars, is_authenticated, session_file, chatVars,
                   loginBy>>

\* A call of get_patient_info.
GetPatientInfoJar ==
    /\ \E fetch \in FetchOutcomes, found \in BOOLEAN :
         LET g == get_patient_info(is_authenticated, fetch, found) IN
         /\ call' = [NoCall EXCEPT !.op = "get_patient_info",
                                   !.flag0 = is_authenticated,
                                   !.page = fetch,
                                   !.result = g.result,
                                   !.requests = g.requests,
                                   !.s = cookies,
                                   !.snapshot0 = snapshot]
         /\ Respond(BOOLEAN, g.requests)
    /\ UNCHANGED <<pollVars, is_authenticated, session_file, chatVars,
                   loginBy>>

\* The five reading and writing operations of the client, with the jar the
\* responses leave.
NextGuard ==
    \/ ListMessagesJar
    \/ GetMessageDetailsJar
    \/ GetAllMessagesJar
    \/ AskQuestionJar
    \/ GetPatientInfoJar

SpecGuard == Init /\ [][NextGuard]_vars

----------------------------------------------------------------------------
(* The parse of an entry's timestamp *)

\* An entry of the listing whose span holds the tokens call.parts and whose
\* href gave the date call.date0.
InitParse ==
    /\ state_file = NoFile
    /\ last_message_id = None
    /\ message_checker_running = FALSE
    /\ pc = "init"
    /\ messages = <<>>
    /\ todo = <<>>
    /\ new_last_message_id = 0
    /\ cycle = NoCycle
    /\ session_file = FALSE
    /\ is_authenticated = FALSE
    /\ hpc = "idle"
    /\ conv = "END"
    /\ twofa_data = FALSE
    /\ notified = {}
    /\ loginBy = {}
    /\ cookies = {}
    /\ snapshot = AbsentFile
    /\ \E parts \in TokenSeqs, date0 \in UrlDates :
         call = [NoCall EXCEPT !.op = "span", !.parts = parts,
                               !.date0 = date0, !.date = date0]

\* lines 343-365 on that entry
ParseTimestamp ==
    /\ call.op = "span"
    /\ LET t == parse_timestamp(call.parts, call.date0) IN
       call' = [call EXCEPT !.op = "parse_timestamp",
                            !.date = t.date,
                            !.time = t.time]
    /\ UNCHANGED <<pollVars, is_authenticated, session_file, chatVars,
                   loginBy, storeVars>>

NextParse == ParseTimestamp

SpecParse == InitParse /\ [][NextParse]_vars

----------------------------------------------------------------------------
(* Properties *)

\* Identifiers of the answered records of a listing.
AnsweredIds(msgs) ==
    {Val(msgs[i].id) :
        i \in {j \in DOMAIN msgs :
                  msgs[j].answered = Some(TRUE) /\ msgs[j].id # None}}

\* Identifiers of the records of a listing that are not answered.
UnansweredIds(msgs) ==
    {Val(msgs[i].id) :
        i \in {j \in DOMAIN msgs :
                  msgs[j].answered # Some(TRUE) /\ msgs[j].id # None}}

\* Every answered record of the listing carries an integer identifier.
AnsweredHaveIds(msgs) ==
    \A i \in DOMAIN msgs : msgs[i].answered = Some(TRUE) => msgs[i].id # None

SetMax(S) == CHOOSE m \in S : \A x \in S : x <= m

\* a is absent, or b is a value not below a
NotBelow(a, b) == a = None \/ (b # None /\ Val(b) >= Val(a))

\* A poll cycle has obtained a listing and has returned.
CycleListed == pc = "returned" /\ cycle.ensured = "yes"

\* C1: over any sequence of poll cycles and restarts, send_message is called
\* at most once for any message identifier: no step notifies an identifier
\* that has been notified before.
AtMostOncePerId ==
    [][\A i \in Ids :
          cycle'.attempted = Append(cycle.attempted, i) => i \notin notified]_vars

\* C2: the cursor never decreases over a poll cycle, in memory and in the
\* state file, and a cycle whose greatest answered identifier is below the
\* cursor leaves both unchanged.
CursorNeverDecreases ==
    pc = "returned" =>
        /\ NotBelow(cycle.cursor0, last_message_id)
        /\ NotBelow(load_last_message_state(cycle.file0),
                    load_last_message_state(state_file))
        /\ (/\ cycle.cursor0 # None
            /\ AnsweredIds(messages) # {}
            /\ SetMax(AnsweredIds(messages)) < Val(cycle.cursor0))
           => (last_message_id = cycle.cursor0 /\ state_file = cycle.file0)

\* C3: a poll cycle that starts with no cursor never notifies; when its
\* listing holds an answered record (each answered record with an integer
\* identifier) it sets the cursor to the greatest answered identifier and
\* writes that value to the state file, which holds it unless the write
\* failed.
FirstRunSuppression ==
    (cycle.ensured # "no_cycle" /\ cycle.cursor0 = None) =>
        /\ cycle.attempted = <<>>
        /\ pc # "notify"
        /\ (/\ CycleListed
            /\ AnsweredIds(messages) # {}
            /\ AnsweredHaveIds(messages))
           => /\ last_message_id = Some(SetMax(AnsweredIds(messages)))
              /\ cycle.saved # "none"
              /\ cycle.saved = "ok" =>
                    state_file = Json(Some(SetMax(AnsweredIds(messages))))

\* C3 witness: a first cycle over two answered records has returned, nothing
\* was notified and the file holds the greater identifier.
FirstRunSuppressionWitness ==
    /\ CycleListed
    /\ cycle.cursor0 = None
    /\ Cardinality(AnsweredIds(messages)) = 2
    /\ cycle.attempted = <<>>
    /\ state_file = Json(Some(SetMax(AnsweredIds(messages))))

\* C4: a poll cycle that starts with cursor c and obtains a non-empty listing
\* (with an answered record, each answered record with an integer identifier)
\* attempts delivery for exactly the answered records above c and ends with
\* the cursor at the greatest answered identifier.
SteadyStateDelivery ==
    (/\ CycleListed
     /\ cycle.cursor0 # None
     /\ AnsweredIds(messages) # {}
     /\ AnsweredHaveIds(messages))
    => /\ Range(cycle.attempted) =
             {i \in AnsweredIds(messages) : i > Val(cycle.cursor0)}
       /\ last_message_id = Some(SetMax(AnsweredIds(messages)))

\* C5: within one poll cycle the records are notified in ascending order of
\* identifier, whatever the order of the listing.
DeliveryAscending ==
    \A i, j \in DOMAIN cycle.attempted :
        i < j => cycle.attempted[i] < cycle.attempted[j]

\* C6: a record that is not answered is never queued for notification nor
\* notified in the cycle that lists it, and the value the cursor is set to is
\* the greatest identifier among the answered records only (0 without any).
UnansweredExclusion ==
    /\ \A u \in UnansweredIds(messages) :
          /\ u \notin Range(cycle.attempted)
          /\ \A k \in DOMAIN todo : todo[k].id # Some(u)
    /\ \A k \in DOMAIN todo : todo[k].answered = Some(TRUE)
    /\ (pc = "notify" \/ (CycleListed /\ cycle.exit = "ok"))
       => new_last_message_id \in AnsweredIds(messages) \cup {0}
    /\ (CycleListed /\ cycle.exit = "ok")
       => last_message_id =
             Some(IF AnsweredIds(messages) = {} THEN 0
                  ELSE SetMax(AnsweredIds(messages)))

\* C6 witness: a cycle with cursor 1 listed an unanswered record above every
\* answered one; only the answered record was notified and the cursor is its
\* identifier.
UnansweredExclusionWitness ==
    /\ CycleListed
    /\ cycle.exit = "ok"
    /\ cycle.cursor0 = Some(1)
    /\ AnsweredIds(messages) = {2}
    /\ UnansweredIds(messages) = {3}
    /\ cycle.attempted = <<2>>
    /\ last_message_id = Some(2)

\* C7: a failing delivery does not end the cycle: when the cycle has
\* returned, delivery was attempted for every new record, the cursor is
\* the greatest answered identifier and it was written to the state file,
\* which holds it unless the write failed.
DeliveryFailureIsolation ==
    cycle.failed # {} =>
        /\ cycle.exit # "error"
        /\ pc = "returned" =>
              /\ Range(cycle.attempted) =
                    {i \in AnsweredIds(messages) : i > Val(cycle.cursor0)}
              /\ last_message_id = Some(SetMax(AnsweredIds(messages)))
              /\ cycle.saved # "none"
              /\ cycle.saved = "ok" =>
                    state_file = Json(Some(SetMax(AnsweredIds(messages))))

\* C7 witness: the first of two deliveries failed, the second was attempted
\* all the same and the cursor was written.
DeliveryFailureIsolationWitness ==
    /\ pc = "returned"
    /\ Len(cycle.attempted) = 2
    /\ cycle.failed = {cycle.attempted[1]}
    /\ last_message_id = Some(SetMax(AnsweredIds(messages)))
    /\ state_file = Json(last_message_id)

\* C8: once _ensure_authenticated has reported no valid session to a poll
\* cycle, the cycle has returned (the worker goes on to its sleep), nothing
\* was notified and the cursor is as before, in memory and in the state file.
UnauthenticatedSkip ==
    cycle.ensured = "no" =>
        /\ pc = "returned"
        /\ cycle.attempted = <<>>
        /\ todo = <<>>
        /\ last_message_id = cycle.cursor0
        /\ state_file = cycle.file0
        /\ cycle.saved = "none"

\* C8 witness: a cycle of a bot that holds cursor 2 and whose client flag is
\* set found the session stale and returned.
UnauthenticatedSkipWitness ==
    /\ cycle.ensured = "no"
    /\ pc = "returned"
    /\ is_authenticated
    /\ last_message_id = Some(2)
    /\ state_file = Json(Some(2))

SessionMutualExclusion ==
    ~(/\ pc \in {"ensure", "list"}
      /\ hpc \in {"login_get", "login_post", "sms_post"})

\* What the file holds cannot be restored as a whole: it is not JSON, not an
\* object, its 'cookies' is not a list or one of the entries is not a cookie.
Undeserializable(file) ==
    \/ file.kind \in {"not_json", "not_object", "cookies_not_list"}
    \/ \E i \in DOMAIN file.entries : file.entries[i].shape # "cookie"

\* The six fields of each cookie of a jar.
SixFields(jar) == {cookie_to_dict(c) : c \in jar}

BeginCalled == call.op = "begin_authentication"

CompleteCalled == call.op = "complete_two_factor_auth"

\* C11: begin_authentication returns exactly one of True, False and
\* TwoFactorAuthData for every response to the login submission, and False
\* when the transport fails (the GET or the POST raises).
BeginLoginOneOutcome ==
    BeginCalled =>
        /\ call.result \in {"True", "False", "TwoFactorAuthData"}
        /\ call.r.raised => call.result = "False"

\* C11 witness: a login whose transport failed has returned False.
BeginLoginOneOutcomeWitness ==
    /\ BeginCalled
    /\ call.r.raised
    /\ call.result = "False"
    /\ hpc = "idle"

\* C12: begin_authentication returns True only when the final URL holds no
\* login path and the text lacks the login-page markers; a response with a
\* URL off the login path and the markers in its text gives False.
LoginNeedsBothChecks ==
    BeginCalled =>
        /\ call.result = "True" => (~call.r.login /\ ~call.r.markers)
        /\ (~call.r.raised /\ ~call.r.login /\ call.r.markers)
           => call.result = "False"

\* C12 witness: a response off the login path that carries the markers was
\* classified as a failed login.
LoginNeedsBothChecksWitness ==
    /\ BeginCalled
    /\ ~call.r.raised
    /\ ~call.r.login
    /\ call.r.markers
    /\ call.result = "False"
    /\ ~is_authenticated

\* C13: complete_two_factor_auth returns True only when the final URL holds
\* no login path and the text lacks the markers; every response whose URL
\* holds the login path, the SMS page included, gives False.
ChallengeClassification ==
    CompleteCalled =>
        /\ call.result = "True" => (~call.r.login /\ ~call.r.markers)
        /\ call.r.login => call.result = "False"

\* C14: after a failed complete_two_factor_auth the conversation is over: it
\* does not wait for a code again and the same challenge is not submitted
\* again.
FailedChallengeSingleUse ==
    (CompleteCalled /\ call.result = "False") =>
        /\ conv # "WAITING_FOR_SMS_CODE"
        /\ hpc # "sms_post"

\* C15: while begin_authentication runs, no challenge of an earlier attempt
\* is stored in context.user_data['twofa_data'].
ChallengeConsumedBeforeLogin ==
    hpc \in {"login_get", "login_post"} => ~twofa_data

\* C16: begin_authentication and complete_two_factor_auth call _save_session
\* exactly when they return True (the flag is then set and the file exists
\* unless the write failed); on every other outcome the flag and the session
\* file are as the operation found them.
SessionPersistedOnSuccess ==
    (BeginCalled \/ CompleteCalled) =>
        /\ call.result = "True" <=> call.saved # "none"
        /\ call.result = "True" =>
              /\ is_authenticated
              /\ call.saved = "ok" => session_file
              /\ call.saved = "failed" => session_file = call.file0
        /\ call.result # "True" =>
              /\ is_authenticated = call.flag0
              /\ session_file = call.file0

\* C16 witness: a login that ended with a pending challenge left a client
\* without session file and without the flag as it was.
SessionPersistedOnSuccessWitness ==
    /\ BeginCalled
    /\ call.result = "TwoFactorAuthData"
    /\ call.saved = "none"
    /\ ~session_file
    /\ ~is_authenticated

\* C17: two consecutive calls of _ensure_authenticated with a valid session
\* both make the probe, both return True, and leave the flag, the session
\* file, the cursor and the state file as they were.
EnsureSessionIdempotent ==
    (call.op = "_ensure_authenticated twice" /\ call.valid) =>
        /\ call.result = "True"
        /\ call.probed
        /\ is_authenticated = call.flag0
        /\ session_file = call.file0
        /\ last_message_id = call.cursor0
        /\ state_file = call.statefile0

\* C17 witness: two consecutive calls found the flag set and the probe
\* accepted, with a session file present.
EnsureSessionIdempotentWitness ==
    /\ call.op = "_ensure_authenticated twice"
    /\ call.valid
    /\ call.result = "True"
    /\ call.probed
    /\ is_authenticated
    /\ session_file

\* C18: a probe answered with 303 and a probe whose request fails both
\* report a stale session, by a normal return.
ProbeFailClosed ==
    (/\ call.op = "_ensure_authenticated"
     /\ call.probed
     /\ call.probe \in {"redirect303", "network_error"})
    => call.result = "False"

\* C18 witness: the flag is set, the probe's request failed and
\* _ensure_authenticated returned False.
ProbeFailClosedWitness ==
    /\ call.op = "_ensure_authenticated"
    /\ call.probed
    /\ call.probe = "network_error"
    /\ call.result = "False"
    /\ is_authenticated

\* C19: _load_session returns normally whatever the session file holds, and
\* when the content cannot be restored the jar is empty and the client is not
\* authenticated.
SessionLoadNeverRaises ==
    call.op = "_load_session" =>
        /\ call.result = "none"
        /\ Undeserializable(snapshot) => (cookies = {} /\ ~is_authenticated)

AtomicSave ==
    call.op = "_save_session" =>
        \/ snapshot = call.snapshot0
        \/ \E order \in Orders(call.s) : snapshot = session_data(order)

\* C22: logout returns whether or not its request to the portal failed, and
\* once it has returned the jar is empty, the flag is False and there is no
\* session file.
LogoutEndsUnauthenticated ==
    call.op = "logout" =>
        /\ call.result \in {"none", "OSError"}
        /\ call.result = "none" =>
              /\ cookies = {}
              /\ ~is_authenticated
              /\ snapshot = AbsentFile
              /\ ~session_file

\* C22 witness: a logout whose request failed, on an authenticated client
\* with a session file, has returned.
LogoutEndsUnauthenticatedWitness ==
    /\ call.op = "logout"
    /\ call.result = "none"
    /\ call.probe = "network_error"
    /\ call.snapshot0.kind = "cookies_list"
    /\ snapshot = AbsentFile
    /\ cookies = {}
    /\ ~is_authenticated


\* C23: a question of more than 600 characters that comes in through
\* ask_question or through the /ask command is rejected and no request goes
\* to the portal.
QuestionLengthValidation ==
    (call.op \in {"ask_question", "ask_command"}
        /\ call.question > QuestionLimit) =>
        /\ call.requests = <<>>
        /\ call.result # "True"

\* C24: ask_question with the path of an attachment that does not exist is
\* rejected before any request goes out, and the question is never
\* submitted without the attachment.
AttachmentValidation ==
    (call.op = "ask_question" /\ call.attachment = "missing") =>
        /\ call.requests = <<>>
        /\ call.result # "True"


\* C29: list_messages, get_message_details and the probe raise nothing: a
\* failed request or parse, or a page without its container, makes
\* list_messages return the empty list, get_message_details return None and
\* the probe return False.
FailureContainment ==
    /\ call.op = "list_messages" =>
          /\ call.result = "returned"
          /\ call.page # "links" => call.listing = <<>>
    /\ call.op = "get_message_details" =>
          /\ call.result = "returned"
          /\ call.page # "ok" => call.details = None
    /\ call.op = "is_session_valid" =>
          /\ call.result \in {"True", "False"}
          /\ call.probe # "ok" => call.result = "False"

FailureContainmentWitness ==
    /\ call.op = "list_messages"
    /\ call.flag0
    /\ call.page = "request_failed"
    /\ call.result = "returned"
    /\ call.listing = <<>>

\* C30: a detail page that has the question block with its text and no
\* answer block gives a dict with the question, an empty answer and no
\* sender, and get_message_details does not raise.
ExtractionDegradation ==
    (/\ call.op = "get_message_details"
     /\ call.flag0
     /\ call.page = "ok"
     /\ call.blocks.question = "text"
     /\ call.blocks.answer = "absent") =>
        /\ call.result = "returned"
        /\ call.details # None
        /\ Val(call.details).question # ""
        /\ Val(call.details).answer = ""
        /\ Val(call.details).sender = None

ExtractionDegradationWitness ==
    /\ call.op = "get_message_details"
    /\ call.flag0
    /\ call.page = "ok"
    /\ call.blocks = [question |-> "text", answer |-> "absent",
                      sender |-> FALSE]
    /\ call.details = Some([question |-> "Q", answer |-> "",
                            content |-> <<<<"Question", "Q">>>>,
                            sender |-> None])


\* C27: when a cycle that assigns the cursor has returned, the state file
\* holds the cursor the bot has in memory, also when the write failed.
CursorDurability ==
    (CycleListed /\ cycle.exit = "ok") => state_file = Json(last_message_id)

\* C28: a cycle whose listing came back empty (no folder, no button list, no
\* links, or a failed request or parse) notifies nothing and leaves the
\* cursor as it was, in memory and in the state file.
EmptyListingSkip ==
    (CycleListed /\ messages = <<>>) =>
        /\ cycle.exit = "empty"
        /\ cycle.attempted = <<>>
        /\ last_message_id = cycle.cursor0
        /\ state_file = cycle.file0

EmptyListingSkipWitness ==
    /\ CycleListed
    /\ messages = <<>>
    /\ cycle.exit = "empty"
    /\ cycle.cursor0 # None
    /\ last_message_id = cycle.cursor0
    /\ state_file = cycle.file0
    /\ state_file # NoFile


StopGiven ==
    \/ pc # "init" /\ ~message_checker_running
    \/ pc \in {"stopped", "cancelled"}

\* C25: once shutdown has cleared message_checker_running or the worker task
\* has been cancelled, no new poll cycle starts and the worker terminates in
\* the end.
Cancellation ==
    /\ [][StopGiven => ~(pc # "ensure" /\ pc' = "ensure")]_vars
    /\ StopGiven ~> pc \in {"stopped", "cancelled"}

CancellationWitness ==
    /\ pc = "stopped"
    /\ ~message_checker_running
    /\ last_message_id # None

\* C26: after a cycle the worker goes to a wait before it comes back to the
\* loop test, and after a cycle that ended with an error that wait is the
\* fixed back-off.
NoBusyLooping ==
    [][/\ pc' = "ensure" => pc \in {"loop", "ensure"}
       /\ pc' = "loop" => pc \in {"init", "sleep", "loop"}
       /\ pc = "returned" => pc' \in {"returned", "sleep", "backoff"}
       /\ (pc = "returned" /\ cycle.exit = "error" /\ pc' # "returned")
             => pc' = "backoff"]_vars

\* C31: once a cursor value has been persisted, a cycle that lists answered
\* records above it does not treat the cursor as absent: it attempts
\* delivery.
PersistedCursorNotSuppressed ==
    (/\ CycleListed
     /\ cycle.exit = "ok"
     /\ cycle.file0 # NoFile
     /\ cycle.cursor0 # None
     /\ cycle.cursor0 = load_last_message_state(cycle.file0)
     /\ \E i \in AnsweredIds(messages) : i > Val(cycle.cursor0))
    => cycle.attempted # <<>>

\* C32: within a poll cycle the cursor is assigned and the state file is
\* written only by the step that ends the cycle, after the delivery attempt
\* for every new record of the cycle; never before or between deliveries.
CursorWrittenLast ==
    [][(/\ pc' # "init"
        /\ \/ last_message_id' # last_message_id
           \/ state_file' # state_file)
       => /\ pc' = "returned"
          /\ cycle'.exit = "ok"
          /\ todo' = <<>>
          /\ Len(cycle'.attempted) =
                Len(after_listing(TRUE, messages', last_message_id).new_messages)]_vars

CursorWrittenLastWitness ==
    /\ pc = "returned"
    /\ cycle.exit = "ok"
    /\ Len(cycle.attempted) = 2
    /\ cycle.cursor0 # None
    /\ last_message_id # cycle.cursor0
    /\ state_file = Json(last_message_id)

\* C33: of the tokens of an entry's timestamp, a first token 'Today' in any
\* case gives the date 'Today' and the second token as the time; else four
\* or more tokens give the first three as the date and the fourth as the
\* time; else three tokens give the first two as the date and the third as
\* the time; fewer than two tokens set neither field.
TimestampPrecedence ==
    call.op = "parse_timestamp" =>
        LET p == call.parts IN
        IF Len(p) < 2
        THEN call.date = call.date0 /\ call.time = None
        ELSE IF p[1] \in {"Today", "today", "TODAY"}
        THEN call.date = Some(<<"Today">>) /\ call.time = Some(p[2])
        ELSE IF Len(p) >= 4
        THEN /\ call.date = Some(<<p[1], p[2], p[3]>>)
             /\ call.time = Some(p[4])
        ELSE Len(p) = 3 =>
                /\ call.date = Some(<<p[1], p[2]>>)
                /\ call.time = Some(p[3])

TimestampPrecedenceWitness ==
    /\ call.op = "parse_timestamp"
    /\ call.parts = <<"3", "October", "3", "15:56", "today">>
    /\ call.date = Some(<<"3", "October", "3">>)
    /\ call.time = Some("15:56")

\* C34: a cycle whose listing holds an answered record without an integer
\* identifier notifies nothing, leaves the cursor as it was in memory and in
\* the state file, and the worker goes on to its wait.
FailedCycleAllOrNothing ==
    (CycleListed /\ ~AnsweredHaveIds(messages)) =>
        /\ cycle.exit = "error"
        /\ cycle.attempted = <<>>
        /\ last_message_id = cycle.cursor0
        /\ state_file = cycle.file0
        /\ ENABLED Sleep

FailedCycleAllOrNothingWitness ==
    /\ CycleListed
    /\ ~AnsweredHaveIds(messages)
    /\ cycle.exit = "error"
    /\ cycle.cursor0 # None
    /\ \E i \in AnsweredIds(messages) : i > Val(cycle.cursor0)
    /\ cycle.attempted = <<>>
    /\ last_message_id = cycle.cursor0

\* C35: _send_message_notification makes one send_message call for its
\* record and no more: the detailed text when the detail fetch gave a
\* result, the fallback text otherwise, never both.
OneSendPerRecord ==
    call.op = "_send_message_notification" =>
        /\ Len(call.requests) <= 1
        /\ call.valid => call.requests = <<"detailed">>
        /\ ~call.valid => call.requests = <<"fallback">>

OneSendPerRecordWitness ==
    /\ call.op = "_send_message_notification"
    /\ call.valid
    /\ call.saved = "failed"
    /\ call.requests = <<"detailed">>
    /\ cycle.attempted # <<>>

\* C36: a poll cycle begins only when none is in progress, and the cursor
\* and the state file are written only by the step of the worker that ends
\* a cycle (or reloaded by a restart), never by a step of a chat handler.
CyclesNeverOverlap ==
    [][/\ (cycle' # cycle /\ cycle'.ensured = "pending") => cycle = NoCycle
       /\ (last_message_id' # last_message_id \/ state_file' # state_file)
             => \/ pc' = "init"
                \/ /\ pc \in {"list", "notify"}
                   /\ pc' = "returned"
                   /\ UNCHANGED <<chatVars, is_authenticated, session_file>>]_vars

CyclesNeverOverlapWitness ==
    /\ pc = "returned"
    /\ cycle.exit = "ok"
    /\ hpc = "login_post"
    /\ cycle.cursor0 # None
    /\ last_message_id # cycle.cursor0

\* C37: called on a client whose authenticated flag is false, list_messages,
\* get_message_details, get_all_messages, ask_question and get_patient_info
\* return their empty or failure value, send no request and leave the
\* cookies and the session file as they were.
UnauthenticatedGuard ==
    (/\ call.op \in {"list_messages", "get_message_details",
                     "get_all_messages", "ask_question", "get_patient_info"}
     /\ ~call.flag0) =>
        /\ call.requests = <<>>
        /\ cookies = call.s
        /\ snapshot = call.snapshot0
        /\ call.op = "list_messages" =>
              call.result = "returned" /\ call.listing = <<>>
        /\ call.op = "get_message_details" =>
              call.result = "returned" /\ call.details = None
        /\ call.op = "get_all_messages" =>
              call.listing = <<>> /\ call.archive = <<>>
        /\ call.op = "ask_question" => call.result = "False"
        /\ call.op = "get_patient_info" => call.result = "None"

UnauthenticatedGuardWitness ==
    /\ call.op = "get_patient_info"
    /\ ~call.flag0
    /\ call.page = "ok"
    /\ call.requests = <<>>
    /\ call.result = "None"

\* C38: an update from a chat other than the configured one makes no handler
\* hand a job to the executor or send a request to the portal, and leaves
\* the authentication state and the stored challenge as they were.
ChatAuthorization ==
    [][(call'.chat = "other" /\ call' # call) =>
          /\ call'.requests = <<>>
          /\ UNCHANGED <<hpc, conv, twofa_data, is_authenticated,
                         session_file, loginBy, cookies, snapshot>>]_vars

ChatAuthorizationWitness ==
    /\ call.chat = "other"
    /\ call.op = "start_auth"
    /\ twofa_data
    /\ conv = "WAITING_FOR_SMS_CODE"
    /\ hpc = "idle"
    /\ ~is_authenticated

\* C39: __exit__ and __del__ write the session file only while the
\* authenticated flag is set; after logout they leave the file as logout
\* left it and do not create it again.
TeardownKeepsLogout ==
    call.op \in {"__exit__", "__del__"} =>
        /\ ~call.flag0 => snapshot = call.snapshot0
        /\ call.after = "logout" => snapshot = call.snapshot0

TeardownKeepsLogoutWitness ==
    /\ call.op = "__del__"
    /\ call.after = "logout"
    /\ ~is_authenticated
    /\ call.snapshot0 = AbsentFile
    /\ snapshot = AbsentFile

====
